---------------------------- MODULE Spec2Model ----------------------------
(***************************************************************************)
(* Orchestration core of IntelliDrug-Analysis: MasterAgent                 *)
(* (src/master_agent.py), the capability providers' analyze_async          *)
(* wrappers (src/agents/*.py) and the progress poller of src/app.py.       *)
(*                                                                         *)
(* Numbers: confidences and weights are held in hundredths (0.25 is 25),   *)
(* a weighted sum in units of 1e-4 (0.705 is 7050).  The code adds IEEE    *)
(* doubles; the sign of the accumulated binary error against the exact     *)
(* decimal sum is the parameter fperr of the synthesis operators.          *)
(***************************************************************************)
EXTENDS Integers, FiniteSets, Sequences, TLC

\* ------------------------------------------------------------------ bounds
MaxRuns == 2

\* --------------------------------------------------------------- constants
Agents ==
  {"patent_analysis", "clinical_analysis", "market_analysis",
   "web_analysis", "exim_analysis", "internal_analysis"}

AgentOrder ==
  <<"patent_analysis", "clinical_analysis", "market_analysis",
    "web_analysis", "exim_analysis", "internal_analysis">>

weights ==
  [n \in Agents |->
     CASE n = "patent_analysis"   -> 25
       [] n = "clinical_analysis" -> 20
       [] n = "market_analysis"   -> 20
       [] n = "web_analysis"      -> 15
       [] n = "exim_analysis"     -> 10
       [] n = "internal_analysis" -> 10]

\* TRUE when the provider's analyze_async goes through asyncio.wait_for.
\* BaseAgent.analyze_async does (timeout=30); every registered provider
\* overrides it with a bare run_in_executor await.
UsesWaitFor ==
  [n \in Agents |-> FALSE]

Status == {"Pending", "Running", "Complete", "Failed"}
Terminal == {"Complete", "Failed"}

\* The confidence a provider reports on success in the orchestration runs.
ProviderConf ==
  [n \in Agents |->
     CASE n = "patent_analysis"   -> 90
       [] n = "clinical_analysis" -> 80
       [] n = "market_analysis"   -> 70
       [] n = "web_analysis"      -> 60
       [] n = "exim_analysis"     -> 50
       [] n = "internal_analysis" -> 40]

\* ----------------------------------------------------------------- results
\* kind: "unset" no value, "absent" key not in the mapping, "dict", "nondict",
\*       "raised" an exception object
\* confKind: "num" numeric, "absent" no confidence key, "bad" float() raises
\* error: "none", "Timeout" or "exception"; desc: whose str(e) it carries
NoResult ==
  [kind |-> "unset", confKind |-> "absent", conf |-> 0,
   error |-> "none", desc |-> "none"]

ProviderResult(n, c) ==
  [kind |-> "dict", confKind |-> "num", conf |-> c,
   error |-> "none", desc |-> n]

TimeoutPlaceholder ==
  [kind |-> "dict", confKind |-> "num", conf |-> 0,
   error |-> "Timeout", desc |-> "none"]

\* a failure placeholder that keeps a neutral estimate
ExceptionPlaceholderNeutral(n) ==
  [kind |-> "dict", confKind |-> "num", conf |-> 50,
   error |-> "exception", desc |-> n]

ExceptionPlaceholder(n) ==
  [kind |-> "dict", confKind |-> "num", conf |-> 0,
   error |-> "exception", desc |-> n]

RaisedResult(n) ==
  [kind |-> "raised", confKind |-> "absent", conf |-> 0,
   error |-> "exception", desc |-> n]

\* sum, fperr: the unrounded local overall_confidence of synthesize_results
\* (its exact decimal value and the sign of its float error); the other
\* fields are the returned report
NoSynthesis ==
  [overall_confidence |-> 0, recommendation |-> "none", next_steps |-> "none",
   sum |-> 0, fperr |-> 0]

NoSnapshot ==
  [kind |-> "none", atCall |-> [n \in Agents |-> "Pending"]]

\* how a run is entered: the coroutine awaited directly, or the synchronous
\* analyze_repurposing called with or without a running event loop
Contexts == {"no_loop", "running_loop"}

NoEntry == [via |-> "none", ctx |-> "none"]

AsyncEntry == [via |-> "async", ctx |-> "running_loop"]

SyncEntry(ctx) == [via |-> "sync", ctx |-> ctx]

\* ------------------------------------------- inputs of the ConflictDetector
MaxSources == 2

Dates == {"2030", "2035"}

\* a field of a source entry: its key absent (or None), "" or a value;
\* a confidence of -1 stands for the key being absent
ExpiryFields == {"absent", ""} \cup Dates

SourceFields == {"absent", "A", "B"}

ConfFields == {-1, 60, 90}

SourceEntries ==
  [source : SourceFields, expiry_date : ExpiryFields, confidence : ConfFields]

SourceLists == UNION {[1..k -> SourceEntries] : k \in 0..MaxSources}

\* results_dict as far as detect_conflicts reads it: patent is "absent" (no
\* patent_analysis key), "nondict" or "dict"; source_data is "absent" (no
\* such key), "null" (None) or "list"
PatentInput(p, sd, es, e, c) ==
  [patent |-> p, source_data |-> sd, entries |-> es,
   expiry_date |-> e, confidence |-> c]

NoInput == PatentInput("unset", "absent", <<>>, "absent", -1)

DetectorInputs ==
  {PatentInput("absent", "absent", <<>>, "absent", -1),
   PatentInput("nondict", "absent", <<>>, "absent", -1),
   PatentInput("dict", "null", <<>>, "absent", -1)}
    \cup {PatentInput("dict", "absent", <<>>, e, c) :
            e \in ExpiryFields, c \in ConfFields}
    \cup {PatentInput("dict", "list", es, "absent", -1) : es \in SourceLists}

NoReport == [kind |-> "none", conflict_detected |-> FALSE, conflicts |-> <<>>]

VARIABLES
  pc,             \* position of analyze_repurposing_async
  runs,           \* calls of analyze_repurposing_async started so far
  progress,       \* self.progress
  task,           \* position of each _run_agent_async coroutine
  fate,           \* what each provider call did: "none", "inflight",
                  \* "returned", "raised", "timedout", "hung"
  late,           \* the provider call has passed the 30 s mark
  taskResult,     \* value each _run_agent_async returned
  all_results,    \* all_results[name] for name in self.agents
  meta,           \* other keys present in all_results
  master_synthesis,
  rendererCalls,  \* invocations of generate_report in this run
  outcome,        \* what the caller of the run got
  held,           \* mapping the poller obtained from get_analysis_progress
  entry,          \* how the current run was entered, and from which context
  results_dict,   \* argument of ConflictDetector.detect_conflicts
  conflict_report, \* what detect_conflicts returned (or that it raised)
  confidence_map  \* the confidence breakdown generate_report printed

vars ==
  <<pc, runs, progress, task, fate, late, taskResult, all_results, meta,
    master_synthesis, rendererCalls, outcome, held, entry, results_dict,
    conflict_report, confidence_map>>

\* ------------------------------------------------------- synthesize_results
\* a term that grows as the confidence falls
ConfTermInverted(r, w) ==
  IF r.kind = "dict" /\ r.confKind = "num" THEN (100 - r.conf) * w ELSE 0

\* float(result.get("confidence", 0.0)) * weight, for one name of the table
ConfTerm(r, w) ==
  IF r.kind = "dict" /\ r.confKind = "num" THEN r.conf * w ELSE 0

\* a conversion that never raises (a bad confidence then counts as 0)
SynthNeverRaises(results) == FALSE

\* float() raises on a confidence that is no number
SynthRaises(results) ==
  \E n \in Agents : results[n].kind = "dict" /\ results[n].confKind = "bad"

RECURSIVE SumOver(_, _, _)
SumOver(results, order, i) ==
  IF i > Len(order) THEN 0
  ELSE ConfTerm(results[order[i]], weights[order[i]])
         + SumOver(results, order, i + 1)

\* a sum renormalised over the capabilities that reported a confidence
WeightedSumRenormalised(results) ==
  LET present == {n \in Agents :
                    results[n].kind = "dict" /\ results[n].confKind = "num"
                      /\ results[n].error = "none"}
      total == SumOver([n \in Agents |-> ProviderResult(n, 100)],
                       AgentOrder, 1) \div 100
      share == SumOver([n \in Agents |->
                          IF n \in present THEN ProviderResult(n, 1)
                          ELSE ProviderResult(n, 0)], AgentOrder, 1)
  IN  IF share = 0 THEN 0
      ELSE (SumOver(results, AgentOrder, 1) * total) \div share

\* exact value of the accumulated sum, in units of 1e-4
WeightedSum(results) == SumOver(results, AgentOrder, 1)

\* signs the binary rounding error of the float sum can have
FpErrs(s) == IF s = 0 THEN {0} ELSE {-1, 0, 1}

\* a rounding that cuts the digits off instead
Round2Truncate(s, fperr) == s \div 100

\* round(overall_confidence, 2), in hundredths: correctly rounded, ties of
\* the exact binary value (fperr = 0) to even
Round2(s, fperr) ==
  LET q == s \div 100
      rem == s % 100
  IN  IF rem < 50 THEN q
      ELSE IF rem > 50 THEN q + 1
      ELSE IF fperr > 0 THEN q + 1
      ELSE IF fperr < 0 THEN q
      ELSE IF q % 2 = 0 THEN q ELSE q + 1

\* a comparison that leaves the bound itself out
FloatGt(s, fperr, bound) == s > bound \/ (s = bound /\ fperr > 0)

\* overall_confidence >= bound (bound in units of 1e-4)
FloatGeq(s, fperr, bound) == s > bound \/ (s = bound /\ fperr >= 0)

Recommendation(s, fperr) ==
  IF FloatGeq(s, fperr, 7500) THEN "PROCEED"
  ELSE IF FloatGeq(s, fperr, 5000) THEN "CAUTION"
  ELSE "REJECT"

synthesize_results(results, fperr) ==
  LET s == WeightedSum(results)
      rec == Recommendation(s, fperr)
  IN  [overall_confidence |-> Round2(s, fperr),
       recommendation |-> rec,
       next_steps |-> IF rec = "PROCEED" THEN "Proceed to feasibility study"
                      ELSE "Further analysis required",
       sum |-> s, fperr |-> fperr]

\* --------------------------------------------------------- _run_agent_async
\* a coroutine without the handler of line 394: the exception leaves it
RunAgentSettleNoCatch(n, out) ==
  CASE out = "return" ->
         [status |-> "Complete", result |-> ProviderResult(n, ProviderConf[n])]
    [] out = "TimeoutError" ->
         [status |-> "Failed", result |-> TimeoutPlaceholder]
    [] out = "Exception" ->
         [status |-> "Running", result |-> RaisedResult(n)]

\* a handler of line 394 that builds the placeholder and forgets line 395
RunAgentSettleNoStatus(n, out) ==
  CASE out = "return" ->
         [status |-> "Complete", result |-> ProviderResult(n, ProviderConf[n])]
    [] out = "TimeoutError" ->
         [status |-> "Failed", result |-> TimeoutPlaceholder]
    [] out = "Exception" ->
         [status |-> "Running", result |-> ExceptionPlaceholder(n)]

\* a handler of line 394 that stores the error text as the status
RunAgentSettleErrorText(n, out) ==
  CASE out = "return" ->
         [status |-> "Complete", result |-> ProviderResult(n, ProviderConf[n])]
    [] out = "TimeoutError" ->
         [status |-> "Failed", result |-> TimeoutPlaceholder]
    [] out = "Exception" ->
         [status |-> "exception", result |-> ExceptionPlaceholder(n)]

\* lines 386-397: what the coroutine does with the outcome of
\* await agent.analyze_async(...)
RunAgentSettle(n, out) ==
  CASE out = "return" ->
         [status |-> "Complete", result |-> ProviderResult(n, ProviderConf[n])]
    [] out = "TimeoutError" ->
         [status |-> "Failed", result |-> TimeoutPlaceholder]
    [] out = "Exception" ->
         [status |-> "Failed", result |-> ExceptionPlaceholder(n)]

\* how the await of analyze_async ends for each fate of the provider call
AwaitOutcome(f) ==
  CASE f = "returned" -> "return"
    [] f = "raised"   -> "Exception"
    [] f = "timedout" -> "TimeoutError"

\* asyncio runs the first step of the six tasks gather() created, in
\* registration order, before any executor completion is delivered
Position(n) == CHOOSE i \in 1..Len(AgentOrder) : AgentOrder[i] = n

MayStart(n) ==
  /\ task[n] = "created"
  /\ \A m \in Agents : Position(m) < Position(n) => task[m] # "created"

\* a loop that delivers completions as soon as one task has started
SomeStarted == \E n \in Agents : task[n] # "created"

AllStarted == \A n \in Agents : task[n] # "created"

\* line 427: gather(..., return_exceptions=True)
ReturnExceptions == TRUE

\* an exception left a child task
Escaped == {n \in Agents : task[n] = "done" /\ taskResult[n].kind = "raised"}

\* a wait that ends with the first child to finish
GatherFirstDone == \E n \in Agents : task[n] = "done"

\* asyncio.gather resolves when every child has finished; without
\* return_exceptions the first exception of a child ends it at once
GatherDone ==
  \/ \A n \in Agents : task[n] = "done"
  \/ ~ReturnExceptions /\ Escaped # {}

\* a bundle that leaves out the capabilities that failed
BuildResultsSkipFailed(results_list) ==
  [n \in Agents |->
     IF results_list[n].error # "none" THEN NoResult ELSE results_list[n]]

\* a pairing of the names with the results of the next task in the list
BuildResultsShifted(results_list) ==
  [n \in Agents |->
     LET m == AgentOrder[(Position(n) % Len(AgentOrder)) + 1]
     IN  IF results_list[m].kind = "raised"
           THEN ExceptionPlaceholder(results_list[m].desc)
           ELSE results_list[m]]

\* lines 430-435
BuildResults(results_list) ==
  [n \in Agents |->
     IF results_list[n].kind = "raised"
       THEN ExceptionPlaceholder(results_list[n].desc)
       ELSE results_list[n]]

\* line 380: the mapping handed to the caller
get_analysis_progress ==
  [kind |-> "alias", atCall |-> progress]

\* what a holder of that mapping reads from it now
Observed(h) == IF h.kind = "alias" THEN progress ELSE h.atCall

\* ------------------------------------------------------ analyze_repurposing
\* line 405: asyncio.get_running_loop() raises RuntimeError without a loop
get_running_loop(ctx) ==
  IF ctx = "running_loop" THEN "loop" ELSE "RuntimeError"

\* line 407: run_until_complete refuses a loop that is already running
run_until_complete(ctx) ==
  IF ctx = "running_loop" THEN "RuntimeError" ELSE "completes"

\* line 412: asyncio.run refuses to start inside a running loop
asyncio_run(ctx) ==
  IF ctx = "running_loop" THEN "RuntimeError" ELSE "completes"

\* lines 403-412: "completes" if the coroutine is run, "RuntimeError" if
\* that exception leaves the method
analyze_repurposing(ctx) ==
  IF get_running_loop(ctx) = "RuntimeError" THEN asyncio_run(ctx)
  ELSE IF run_until_complete(ctx) = "RuntimeError" THEN asyncio_run(ctx)
  ELSE "completes"

\* --------------------------------------- ConflictDetector.detect_conflicts
\* entry.get(key) of lines 35-37 and 43-44
GetValue(e) == IF e = "absent" THEN "None" ELSE e

GetConfidence(c) == IF c < 0 THEN 0 ELSE c

\* lines 30-45
expiry_values(rd) ==
  IF rd.source_data = "list"
    THEN [i \in DOMAIN rd.entries |->
            [source |-> IF rd.entries[i].source = "absent" THEN "unknown"
                        ELSE rd.entries[i].source,
             value |-> GetValue(rd.entries[i].expiry_date),
             confidence |-> GetConfidence(rd.entries[i].confidence)]]
    ELSE <<[source |-> "Generic", value |-> GetValue(rd.expiry_date),
            confidence |-> GetConfidence(rd.confidence)]>>

\* a set of values that keeps None and ""
unique_values_unfiltered(ev) ==
  {ev[i].value : i \in DOMAIN ev}

\* line 47: the values that are truthy
unique_values(ev) ==
  {ev[i].value : i \in {j \in DOMAIN ev : ev[j].value \notin {"None", ""}}}

\* lines 25-58
detect_conflicts(rd) ==
  IF rd.patent = "nondict"
    THEN [kind |-> "report", conflict_detected |-> FALSE, conflicts |-> <<>>]
  ELSE IF rd.source_data = "null"
    THEN [kind |-> "TypeError", conflict_detected |-> FALSE,
          conflicts |-> <<>>]
  ELSE IF Cardinality(unique_values(expiry_values(rd))) > 1
    THEN [kind |-> "report", conflict_detected |-> TRUE,
          conflicts |->
            <<[field |-> "patent_expiry", sources |-> expiry_values(rd),
               resolution |->
                 "Use highest confidence source with flag for review"]>>]
  ELSE [kind |-> "report", conflict_detected |-> FALSE, conflicts |-> <<>>]

\* ------------------------------------ ReportGeneratorAgent.generate_report
\* nothing printed yet
NoBreakdown == [n \in Agents |-> -1]

\* the key under which generate_report looks up capability n
RendererKey(n) ==
  CASE n = "patent_analysis"   -> "patent_analysis"
    [] n = "clinical_analysis" -> "clinical_trials_analysis"
    [] n = "market_analysis"   -> "market_analysis"
    [] n = "web_analysis"      -> "web_intelligence_analysis"
    [] n = "exim_analysis"     -> "exim_analysis"
    [] n = "internal_analysis" -> "internal_knowledge_analysis"

\* .get("confidence", 0) on an entry of the bundle
ReadConfidence(r) == IF r.confKind = "num" THEN r.conf ELSE 0

\* confidence_map: all_agent_results.get(key, {}).get("confidence", 0)
BuildConfidenceMap(bundle) ==
  [n \in Agents |->
     IF RendererKey(n) \in DOMAIN bundle
       THEN ReadConfidence(bundle[RendererKey(n)])
       ELSE 0]

\* -------------------------------------------------------------------- Init
Init ==
  /\ pc = "idle"
  /\ runs = 0
  /\ progress = [n \in Agents |-> "Pending"]
  /\ task = [n \in Agents |-> "none"]
  /\ fate = [n \in Agents |-> "none"]
  /\ late = [n \in Agents |-> FALSE]
  /\ taskResult = [n \in Agents |-> NoResult]
  /\ all_results = [n \in Agents |-> NoResult]
  /\ meta = {}
  /\ master_synthesis = NoSynthesis
  /\ rendererCalls = 0
  /\ outcome = "none"
  /\ held = NoSnapshot
  /\ entry = NoEntry
  /\ results_dict = NoInput
  /\ conflict_report = NoReport
  /\ confidence_map = NoBreakdown

\* ----------------------------------------------------------------- actions
\* analyze_repurposing_async, lines 418-427: build the coroutines and await
\* the gather
Start ==
  /\ pc \in {"idle", "returned", "raised"}
  /\ runs < MaxRuns
  /\ runs' = runs + 1
  /\ pc' = "gathering"
  /\ task' = [n \in Agents |-> "created"]
  /\ fate' = [n \in Agents |-> "none"]
  /\ late' = [n \in Agents |-> FALSE]
  /\ taskResult' = [n \in Agents |-> NoResult]
  /\ all_results' = [n \in Agents |-> NoResult]
  /\ meta' = {}
  /\ master_synthesis' = NoSynthesis
  /\ rendererCalls' = 0
  /\ outcome' = "none"
  /\ entry' = AsyncEntry
  /\ confidence_map' = NoBreakdown
  /\ UNCHANGED <<progress, held, results_dict, conflict_report>>

\* _run_agent_async up to its await (line 384 and the executor submit)
TaskStart(n) ==
  /\ pc = "gathering"
  /\ MayStart(n)
  /\ progress' = [progress EXCEPT ![n] = "Running"]
  /\ task' = [task EXCEPT ![n] = "awaiting"]
  /\ fate' = [fate EXCEPT ![n] = "inflight"]
  /\ UNCHANGED <<pc, runs, late, taskResult, all_results, meta,
                 master_synthesis, rendererCalls, outcome, held>>
  /\ UNCHANGED <<entry, results_dict, conflict_report, confidence_map>>

\* a fail-fast settle: a failing task cancels the siblings still awaited
SettleFailFast(n, f) ==
  LET r == RunAgentSettle(n, AwaitOutcome(f))
      cancelled == IF r.status = "Failed"
                     THEN {m \in Agents \ {n} : task[m] = "awaiting"}
                     ELSE {}
  IN  /\ fate' = [m \in Agents |->
                    IF m = n THEN f
                    ELSE IF m \in cancelled THEN "cancelled" ELSE fate[m]]
      /\ progress' = [m \in Agents |->
                        IF m = n THEN r.status
                        ELSE IF m \in cancelled THEN "Failed" ELSE progress[m]]
      /\ taskResult' = [m \in Agents |->
                          IF m = n THEN r.result
                          ELSE IF m \in cancelled THEN ExceptionPlaceholder(m)
                          ELSE taskResult[m]]
      /\ task' = [m \in Agents |->
                    IF m = n \/ m \in cancelled THEN "done" ELSE task[m]]

\* the provider call of n ends with fate f and the coroutine resumes
Settle(n, f) ==
  /\ fate' = [fate EXCEPT ![n] = f]
  /\ progress' =
       [progress EXCEPT ![n] = RunAgentSettle(n, AwaitOutcome(f)).status]
  /\ taskResult' =
       [taskResult EXCEPT ![n] = RunAgentSettle(n, AwaitOutcome(f)).result]
  /\ task' = [task EXCEPT ![n] = "done"]

\* the provider's analyze returns
ProviderReturns(n) ==
  /\ pc = "gathering" /\ AllStarted
  /\ task[n] = "awaiting"
  /\ Settle(n, "returned")
  /\ UNCHANGED <<pc, runs, late, all_results, meta, master_synthesis,
                 rendererCalls, outcome, held>>
  /\ UNCHANGED <<entry, results_dict, conflict_report, confidence_map>>

\* the provider's analyze raises
ProviderRaises(n) ==
  /\ pc = "gathering" /\ AllStarted
  /\ task[n] = "awaiting"
  /\ Settle(n, "raised")
  /\ UNCHANGED <<pc, runs, late, all_results, meta, master_synthesis,
                 rendererCalls, outcome, held>>
  /\ UNCHANGED <<entry, results_dict, conflict_report, confidence_map>>

\* 30 seconds pass on a provider call that has not finished; only an
\* analyze_async built on wait_for turns that into a TimeoutError
DeadlinePasses(n) ==
  /\ pc = "gathering" /\ AllStarted
  /\ task[n] = "awaiting"
  /\ ~late[n]
  /\ late' = [late EXCEPT ![n] = TRUE]
  /\ IF UsesWaitFor[n]
       THEN Settle(n, "timedout")
       ELSE UNCHANGED <<progress, taskResult, task, fate>>
  /\ UNCHANGED <<pc, runs, all_results, meta, master_synthesis,
                 rendererCalls, outcome, held>>
  /\ UNCHANGED <<entry, results_dict, conflict_report, confidence_map>>

\* the provider's analyze never returns
ProviderHangs(n) ==
  /\ pc = "gathering" /\ AllStarted
  /\ task[n] = "awaiting"
  /\ late[n]
  /\ task' = [task EXCEPT ![n] = "hung"]
  /\ fate' = [fate EXCEPT ![n] = "hung"]
  /\ UNCHANGED <<pc, runs, progress, late, taskResult, all_results, meta,
                 master_synthesis, rendererCalls, outcome, held>>
  /\ UNCHANGED <<entry, results_dict, conflict_report, confidence_map>>

\* a join that hands the bundle to the report generator before synthesis
JoinRenderFirst ==
  /\ pc = "gathering"
  /\ GatherDone
  /\ all_results' = BuildResults(taskResult)
  /\ meta' = {"molecule", "disease", "timestamp"}
  /\ rendererCalls' = rendererCalls + 1
  /\ pc' = "synthesize"
  /\ UNCHANGED <<runs, progress, task, fate, late, taskResult,
                 master_synthesis, outcome, held>>
  /\ UNCHANGED <<entry, results_dict, conflict_report, confidence_map>>

\* lines 427-439: the gather resolves, all_results is built
Join ==
  /\ pc = "gathering"
  /\ GatherDone
  /\ IF ~ReturnExceptions /\ Escaped # {}
       THEN /\ pc' = "raised"
            /\ outcome' = "provider_exception"
            /\ UNCHANGED <<all_results, meta>>
       ELSE /\ all_results' = BuildResults(taskResult)
            /\ meta' = {"molecule", "disease", "timestamp"}
            /\ pc' = "synthesize"
            /\ UNCHANGED outcome
  /\ UNCHANGED <<runs, progress, task, fate, late, taskResult,
                 master_synthesis, rendererCalls, held>>
  /\ UNCHANGED <<entry, results_dict, conflict_report, confidence_map>>

\* line 442, and the hand-over to the report generator's thread (445)
Synthesize ==
  /\ pc = "synthesize"
  /\ IF SynthRaises(all_results)
       THEN /\ pc' = "raised"
            /\ outcome' = "synthesis_exception"
            /\ UNCHANGED <<master_synthesis, meta, rendererCalls>>
       ELSE /\ \E e \in FpErrs(WeightedSum(all_results)) :
                 master_synthesis' = synthesize_results(all_results, e)
            /\ meta' = meta \cup {"master_synthesis"}
            /\ rendererCalls' = rendererCalls + 1
            /\ pc' = "rendering"
            /\ UNCHANGED outcome
  /\ UNCHANGED <<runs, progress, task, fate, late, taskResult, all_results,
                 held>>
  /\ UNCHANGED <<entry, results_dict, conflict_report, confidence_map>>

\* generate_report builds the report, confidence breakdown included, and
\* returns the file path (lines 445-454)
RenderReturns ==
  /\ pc = "rendering"
  /\ meta' = meta \cup {"pdf_report"}
  /\ pc' = "returned"
  /\ outcome' = "bundle"
  /\ confidence_map' = BuildConfidenceMap(all_results)
  /\ UNCHANGED <<runs, progress, task, fate, late, taskResult, all_results,
                 master_synthesis, rendererCalls, held>>
  /\ UNCHANGED <<entry, results_dict, conflict_report>>

\* generate_report raises; nothing around line 445 catches it
RenderRaises ==
  /\ pc = "rendering"
  /\ pc' = "raised"
  /\ outcome' = "renderer_exception"
  /\ UNCHANGED <<runs, progress, task, fate, late, taskResult, all_results,
                 meta, master_synthesis, rendererCalls, held>>
  /\ UNCHANGED <<entry, results_dict, conflict_report, confidence_map>>

\* the poller of app.py takes the progress mapping
Poll ==
  /\ pc \in {"gathering", "synthesize", "rendering"}
  /\ held' = get_analysis_progress
  /\ UNCHANGED <<pc, runs, progress, task, fate, late, taskResult, all_results,
                 meta, master_synthesis, rendererCalls, outcome>>
  /\ UNCHANGED <<entry, results_dict, conflict_report, confidence_map>>

Next ==
  \/ Start
  \/ \E n \in Agents : TaskStart(n)
  \/ \E n \in Agents : ProviderReturns(n)
  \/ \E n \in Agents : ProviderRaises(n)
  \/ \E n \in Agents : DeadlinePasses(n)
  \/ \E n \in Agents : ProviderHangs(n)
  \/ Join
  \/ Synthesize
  \/ RenderReturns
  \/ RenderRaises

Spec == Init /\ [][Next]_vars

\* ------------------------------------------------ other specifications
\* Every step is one the event loop or a provider thread takes when it can;
\* a provider call that hangs is the environment's choice and is not forced.
Fairness ==
  /\ \A n \in Agents : WF_vars(TaskStart(n))
  /\ \A n \in Agents : WF_vars(ProviderReturns(n) \/ ProviderRaises(n)
                                 \/ ProviderHangs(n))
  /\ \A n \in Agents : WF_vars(DeadlinePasses(n))
  /\ WF_vars(Join)
  /\ WF_vars(Synthesize)
  /\ WF_vars(RenderReturns \/ RenderRaises)

FairSpec == Init /\ [][Next]_vars /\ Fairness

\* app.py: the script builds a MasterAgent (line 638) and run_analysis makes
\* one run on it, the poller reading the progress mapping between the steps
\* of the run.
NextPoll ==
  \/ runs = 0 /\ Start
  \/ \E n \in Agents : TaskStart(n)
  \/ \E n \in Agents : ProviderReturns(n)
  \/ \E n \in Agents : ProviderRaises(n)
  \/ Join
  \/ Synthesize
  \/ RenderReturns
  \/ Poll

SpecPoll == Init /\ [][NextPoll]_vars

\* Direct calls of synthesize_results on a results mapping.
ConfGrid == {0, 50, 100}

Absent ==
  [kind |-> "absent", confKind |-> "absent", conf |-> 0,
   error |-> "none", desc |-> "none"]

NonDict ==
  [kind |-> "nondict", confKind |-> "absent", conf |-> 0,
   error |-> "none", desc |-> "none"]

NoConfidence(n) ==
  [kind |-> "dict", confKind |-> "absent", conf |-> 0,
   error |-> "exception", desc |-> n]

BadConfidence(n) ==
  [kind |-> "dict", confKind |-> "bad", conf |-> 0,
   error |-> "none", desc |-> n]

\* the scenario of the documentation: confidences .9 .8 .7 .6 .5 .4
Scenario == [n \in Agents |-> ProviderResult(n, ProviderConf[n])]

\* confidences a provider passes through from the model's JSON reply without
\* validation: -1.0 and 85.0 (a percentage)
UnvalidatedConf == {-100, 8500}

Entries(n) ==
  {Absent, NonDict, NoConfidence(n), BadConfidence(n), TimeoutPlaceholder,
   ExceptionPlaceholder(n)}
    \cup {ProviderResult(n, c) : c \in (0..100) \cup UnvalidatedConf}

\* a coarse grid over all six entries, and the scenario with one entry varied
SynthInputs ==
  {[n \in Agents |-> IF g[n] < 0 THEN Absent ELSE ProviderResult(n, g[n])] :
     g \in [Agents -> {-1} \cup ConfGrid]}
    \cup UNION {{[Scenario EXCEPT ![n] = r] : r \in Entries(n)} : n \in Agents}

InitSynth ==
  /\ pc = "synthesize"
  /\ runs = 1
  /\ progress = [n \in Agents |-> "Pending"]
  /\ task = [n \in Agents |-> "none"]
  /\ fate = [n \in Agents |-> "none"]
  /\ late = [n \in Agents |-> FALSE]
  /\ taskResult = [n \in Agents |-> NoResult]
  /\ all_results \in SynthInputs
  /\ meta = {}
  /\ master_synthesis = NoSynthesis
  /\ rendererCalls = 0
  /\ outcome = "none"
  /\ held = NoSnapshot
  /\ entry = NoEntry
  /\ results_dict = NoInput
  /\ conflict_report = NoReport
  /\ confidence_map = NoBreakdown

NextSynth == Synthesize

SpecSynth == InitSynth /\ [][NextSynth]_vars

\* ------------------------------------------- the synchronous entry point
\* analyze_repurposing called in context ctx: either the coroutine is run
\* (and lines 418-427 start the tasks) or the RuntimeError leaves the call
SyncCall ==
  /\ pc \in {"idle", "returned", "raised"}
  /\ runs < MaxRuns
  /\ runs' = runs + 1
  /\ \E ctx \in Contexts :
       /\ entry' = SyncEntry(ctx)
       /\ IF analyze_repurposing(ctx) = "completes"
            THEN /\ pc' = "gathering"
                 /\ task' = [n \in Agents |-> "created"]
                 /\ outcome' = "none"
            ELSE /\ pc' = "raised"
                 /\ task' = [n \in Agents |-> "none"]
                 /\ outcome' = "runtime_error"
  /\ fate' = [n \in Agents |-> "none"]
  /\ late' = [n \in Agents |-> FALSE]
  /\ taskResult' = [n \in Agents |-> NoResult]
  /\ all_results' = [n \in Agents |-> NoResult]
  /\ meta' = {}
  /\ master_synthesis' = NoSynthesis
  /\ rendererCalls' = 0
  /\ confidence_map' = NoBreakdown
  /\ UNCHANGED <<progress, held, results_dict, conflict_report>>

NextEntry ==
  \/ Start
  \/ SyncCall
  \/ \E n \in Agents : TaskStart(n)
  \/ \E n \in Agents : ProviderReturns(n)
  \/ \E n \in Agents : ProviderRaises(n)
  \/ Join
  \/ Synthesize
  \/ RenderReturns
  \/ RenderRaises

SpecEntry == Init /\ [][NextEntry]_vars

\* ------------------------------------------------ calls of detect_conflicts
InitConflict ==
  /\ pc = "idle"
  /\ runs = 0
  /\ progress = [n \in Agents |-> "Pending"]
  /\ task = [n \in Agents |-> "none"]
  /\ fate = [n \in Agents |-> "none"]
  /\ late = [n \in Agents |-> FALSE]
  /\ taskResult = [n \in Agents |-> NoResult]
  /\ all_results = [n \in Agents |-> NoResult]
  /\ meta = {}
  /\ master_synthesis = NoSynthesis
  /\ rendererCalls = 0
  /\ outcome = "none"
  /\ held = NoSnapshot
  /\ entry = NoEntry
  /\ results_dict \in DetectorInputs
  /\ conflict_report = NoReport
  /\ confidence_map = NoBreakdown

DetectConflicts ==
  /\ results_dict # NoInput
  /\ conflict_report = NoReport
  /\ conflict_report' = detect_conflicts(results_dict)
  /\ UNCHANGED <<pc, runs, progress, task, fate, late, taskResult,
                 all_results, meta, master_synthesis, rendererCalls, outcome,
                 held, entry, results_dict, confidence_map>>

NextConflict == DetectConflicts

SpecConflict == InitConflict /\ [][NextConflict]_vars

\* ------------------------------------------- providers that report an error
\* the providers whose analyze can return a mapping with an error key
ErrorReturning == {"exim_analysis", "internal_analysis"}

\* what they return then: {"error": msg} from the trade-data provider,
\* {..., "confidence": 0.0, "error": str(e)} from the internal-knowledge one
ReportedError(n) ==
  [kind |-> "dict",
   confKind |-> IF n = "exim_analysis" THEN "absent" ELSE "num",
   conf |-> 0, error |-> "reported", desc |-> n]

\* a coroutine that marks a returned error as a failure
ProviderReturnsErrorAsFailed(n) ==
  /\ pc = "gathering" /\ AllStarted
  /\ n \in ErrorReturning
  /\ task[n] = "awaiting"
  /\ fate' = [fate EXCEPT ![n] = "returned_error"]
  /\ progress' = [progress EXCEPT ![n] = "Failed"]
  /\ taskResult' = [taskResult EXCEPT ![n] = ReportedError(n)]
  /\ task' = [task EXCEPT ![n] = "done"]
  /\ UNCHANGED <<pc, runs, late, all_results, meta, master_synthesis,
                 rendererCalls, outcome, held, entry, results_dict,
                 conflict_report, confidence_map>>

\* the provider's analyze catches its own failure and returns a mapping that
\* carries the error; the await of line 386 returns and line 387 runs
ProviderReturnsError(n) ==
  /\ pc = "gathering" /\ AllStarted
  /\ n \in ErrorReturning
  /\ task[n] = "awaiting"
  /\ fate' = [fate EXCEPT ![n] = "returned_error"]
  /\ progress' = [progress EXCEPT ![n] = "Complete"]
  /\ taskResult' = [taskResult EXCEPT ![n] = ReportedError(n)]
  /\ task' = [task EXCEPT ![n] = "done"]
  /\ UNCHANGED <<pc, runs, late, all_results, meta, master_synthesis,
                 rendererCalls, outcome, held, entry, results_dict,
                 conflict_report, confidence_map>>

NextReported ==
  \/ runs = 0 /\ Start
  \/ \E n \in Agents : TaskStart(n)
  \/ \E n \in Agents : ProviderReturns(n)
  \/ \E n \in Agents : ProviderRaises(n)
  \/ \E n \in Agents : ProviderReturnsError(n)
  \/ Join
  \/ Synthesize
  \/ RenderReturns
  \/ RenderRaises

SpecReported == Init /\ [][NextReported]_vars

\* ------------------------------------------------------------ cancellation
\* the caller cancels the task that runs analyze_repurposing_async while it
\* awaits the gather (line 427) or the report thread (line 445): the gather
\* cancels its unfinished children, whose CancelledError passes the handlers
\* of lines 390 and 394 (it is no Exception), and the CancelledError leaves
\* analyze_repurposing_async
Cancel ==
  /\ pc \in {"gathering", "rendering"}
  /\ pc = "gathering" => AllStarted
  /\ task' = [n \in Agents |->
                IF task[n] \in {"awaiting", "hung"} THEN "cancelled"
                ELSE task[n]]
  /\ fate' = [n \in Agents |->
                IF task[n] \in {"awaiting", "hung"} THEN "cancelled"
                ELSE fate[n]]
  /\ pc' = "raised"
  /\ outcome' = "cancelled"
  /\ UNCHANGED <<runs, progress, late, taskResult, all_results, meta,
                 master_synthesis, rendererCalls, held, entry, results_dict,
                 conflict_report, confidence_map>>

NextCancel ==
  \/ runs = 0 /\ Start
  \/ \E n \in Agents : TaskStart(n)
  \/ \E n \in Agents : ProviderReturns(n)
  \/ \E n \in Agents : ProviderRaises(n)
  \/ Cancel
  \/ Join
  \/ Synthesize
  \/ RenderReturns
  \/ RenderRaises

SpecCancel == Init /\ [][NextCancel]_vars

\* ------------------------------------------------------------------ claims
Joined == {"synthesize", "rendering", "returned"}

\* C1: an exception raised by a provider's analyze_async is caught by
\* _run_agent_async and replaced by {error: <description>, confidence: 0.0};
\* it never propagates out of analyze_repurposing_async, the placeholder is
\* what the bundle carries, and synthesis accepts it.
C1_ExceptionsIsolated ==
  /\ \A n \in Agents :
       fate[n] = "raised" =>
         /\ taskResult[n] = ExceptionPlaceholder(n)
         /\ progress[n] = "Failed"
         /\ (pc \in Joined => all_results[n] = ExceptionPlaceholder(n))
  /\ outcome # "provider_exception"
  /\ (pc = "synthesize" => ~SynthRaises(all_results))

C1_Witness ==
  /\ outcome = "bundle"
  /\ \A n \in Agents : fate[n] = "raised"

\* C2: a provider call that exceeds the 30-second timeout ends with status
\* Failed and the result {error: "Timeout", confidence: 0.0}.
C2_TimeoutEnforced ==
  \A n \in Agents :
    (late[n] /\ task[n] = "done") =>
      /\ progress[n] = "Failed"
      /\ taskResult[n] = TimeoutPlaceholder

\* C3: a run always passes the join, also when a provider call never
\* returns.
C3_JoinPasses == (pc = "gathering") ~> (pc # "gathering")

\* C4: when synthesis starts every task is Complete or Failed and the
\* results map holds the settled result of every capability.
C4_StrictJoin ==
  pc = "synthesize" =>
    \A n \in Agents :
      /\ progress[n] \in Terminal
      /\ task[n] = "done"
      /\ all_results[n].kind = "dict"
      /\ all_results[n] = taskResult[n]

C4_Witness ==
  /\ pc = "synthesize"
  /\ \E n \in Agents : fate[n] = "raised"
  /\ \E n \in Agents : fate[n] = "returned" /\ late[n]

\* C5: a step in which one task fails changes no sibling task, and the
\* result of every provider that returned is in the bundle unchanged.
C5_FailIndependent ==
  /\ [][\A n \in Agents :
          (progress[n] # "Failed" /\ progress'[n] = "Failed") =>
            \A m \in Agents \ {n} :
              /\ task'[m] = task[m]
              /\ fate'[m] = fate[m]
              /\ progress'[m] = progress[m]
              /\ taskResult'[m] = taskResult[m]]_vars
  /\ [](pc \in Joined =>
          \A m \in Agents :
            fate[m] = "returned" =>
              all_results[m] = ProviderResult(m, ProviderConf[m]))

C5_Witness ==
  /\ pc = "returned"
  /\ fate["patent_analysis"] = "raised"
  /\ \A m \in Agents \ {"patent_analysis"} :
       /\ fate[m] = "returned"
       /\ progress[m] = "Complete"
       /\ all_results[m] = ProviderResult(m, ProviderConf[m])

\* C6: an entry of the progress map changes only along
\* Pending -> Running -> {Complete, Failed}, over any sequence of runs.
C6_Lifecycle ==
  [][\A n \in Agents :
       progress'[n] # progress[n] =>
         <<progress[n], progress'[n]>> \in
           {<<"Pending", "Running">>, <<"Running", "Complete">>,
            <<"Running", "Failed">>}]_vars

\* C7: at the start of every call of analyze_repurposing_async every
\* capability's progress status is Pending.
C7_FreshProgress ==
  (pc = "gathering" /\ \A n \in Agents : task[n] = "created") =>
    \A n \in Agents : progress[n] = "Pending"

\* C8: a mapping obtained from get_analysis_progress keeps the statuses it
\* had when it was obtained.
C8_SnapshotIsCopy ==
  held.kind # "none" => Observed(held) = held.atCall

\* C9: after analyze_repurposing_async has returned, every capability is
\* Complete or Failed.
C9_NoneUnsettled ==
  pc = "returned" => \A n \in Agents : progress[n] \in Terminal

C9_Witness ==
  /\ pc = "returned"
  /\ runs = MaxRuns
  /\ \E n \in Agents : fate[n] = "raised"
  /\ \E n \in Agents : fate[n] = "returned"

\* the sum of the documentation, term by term, in units of 1e-4
C10_Conf(r) == IF r.kind = "dict" /\ r.confKind = "num" THEN r.conf ELSE 0

C10_Sum ==
  25 * C10_Conf(all_results["patent_analysis"])
    + 20 * C10_Conf(all_results["clinical_analysis"])
    + 20 * C10_Conf(all_results["market_analysis"])
    + 15 * C10_Conf(all_results["web_analysis"])
    + 10 * C10_Conf(all_results["exim_analysis"])
    + 10 * C10_Conf(all_results["internal_analysis"])

\* C10 as stated: overall_confidence equals the weighted sum (0.705 in the
\* scenario).
C10_ExactSum ==
  pc = "rendering" => master_synthesis.overall_confidence * 100 = C10_Sum

\* C10 amended: overall_confidence is the weighted sum rounded to two
\* decimals, at most 0.005 away from it; in the scenario the sum is 0.705,
\* the value returned is a two-decimal neighbour of it and the
\* recommendation is CAUTION.
C10_RoundedSum ==
  pc = "rendering" =>
    /\ master_synthesis.overall_confidence * 100 - C10_Sum \in -50..50
    /\ all_results = Scenario =>
         /\ C10_Sum = 7050
         /\ master_synthesis.overall_confidence \in {70, 71}
         /\ master_synthesis.recommendation = "CAUTION"

C10_Witness ==
  /\ pc = "rendering"
  /\ all_results = Scenario
  /\ master_synthesis.overall_confidence = 71
  /\ master_synthesis.recommendation = "CAUTION"

\* the scenario with the capability weighted .25 timed out
ScenarioTimedOut == [Scenario EXCEPT !["patent_analysis"] = TimeoutPlaceholder]

\* capabilities that are absent or present as a failure/timeout placeholder
C11_Missing ==
  {n \in Agents :
     \/ all_results[n].kind = "absent"
     \/ all_results[n] \in {TimeoutPlaceholder, ExceptionPlaceholder(n)}}

C11_Term(n, w) ==
  IF n \in C11_Missing THEN 0 ELSE w * C10_Conf(all_results[n])

C11_Sum ==
  C11_Term("patent_analysis", 25) + C11_Term("clinical_analysis", 20)
    + C11_Term("market_analysis", 20) + C11_Term("web_analysis", 15)
    + C11_Term("exim_analysis", 10) + C11_Term("internal_analysis", 10)

\* C11 as stated: a missing or failed capability contributes 0 with the
\* other weights unchanged, and in the scenario with the .25-weighted
\* capability timed out the score is 0.455 and the recommendation REJECT.
C11_Score0455 ==
  pc = "rendering" =>
    /\ master_synthesis.sum = C11_Sum
    /\ all_results = ScenarioTimedOut =>
         /\ master_synthesis.sum = 4550
         /\ master_synthesis.recommendation = "REJECT"

\* C11 amended: an absent capability or a failure/timeout placeholder
\* contributes 0 and the other capabilities keep their weights (the score
\* is the sum of weight x confidence over the others, not divided by their
\* total weight); in the scenario with the .25-weighted capability timed
\* out the score is 0.48 and the recommendation REJECT.
C11_MissingCountsZero ==
  pc = "rendering" =>
    /\ master_synthesis.sum = C11_Sum
    /\ master_synthesis.overall_confidence * 100 - C11_Sum \in -50..50
    /\ all_results = ScenarioTimedOut =>
         /\ master_synthesis.sum = 4800
         /\ master_synthesis.overall_confidence = 48
         /\ master_synthesis.recommendation = "REJECT"

C11_Witness ==
  /\ pc = "rendering"
  /\ all_results = ScenarioTimedOut
  /\ master_synthesis.overall_confidence = 48
  /\ master_synthesis.recommendation = "REJECT"

\* the unrounded overall_confidence is at least b (units of 1e-4)
C12_AtLeast(b) ==
  \/ master_synthesis.sum > b
  \/ master_synthesis.sum = b /\ master_synthesis.fperr >= 0

\* C12: the bands are evaluated on the computed sum and include their lower
\* bound: exactly 0.75 gives PROCEED, exactly 0.50 gives CAUTION, a value in
\* [0.50, 0.75) gives CAUTION and a value below 0.50 gives REJECT.
C12_Bands ==
  pc = "rendering" =>
    LET rec == master_synthesis.recommendation
        exactly(b) == master_synthesis.sum = b /\ master_synthesis.fperr = 0
    IN  /\ exactly(7500) => rec = "PROCEED"
        /\ exactly(5000) => rec = "CAUTION"
        /\ C12_AtLeast(7500) => rec = "PROCEED"
        /\ (C12_AtLeast(5000) /\ ~C12_AtLeast(7500)) => rec = "CAUTION"
        /\ ~C12_AtLeast(5000) => rec = "REJECT"

C12_Witness ==
  /\ pc = "rendering"
  /\ master_synthesis.sum = 5000
  /\ master_synthesis.fperr = 0
  /\ master_synthesis.recommendation = "CAUTION"

\* C13: a run goes dispatch, join, synthesize, conflict detection, renderer,
\* and the bundle it returns carries the conflict report.
C13_ConflictReportInBundle ==
  /\ pc \in {"rendering", "returned"} => "conflict_report" \in meta
  /\ outcome = "bundle" => "conflict_report" \in meta

\* C14: when generate_report raises the run still returns the bundle, with
\* the capability results and master_synthesis, pdf_report empty and an error
\* attached.
C14_RendererFailureKeepsBundle ==
  outcome = "renderer_exception" =>
    /\ pc = "returned"
    /\ "master_synthesis" \in meta
    /\ "pdf_report" \notin meta
    /\ "error" \in meta

C19_ReportOf(o) ==
  synthesize_results(
    BuildResults([n \in Agents |-> RunAgentSettle(n, o[n]).result]), 0)

\* C19: if every task of a run fails or times out, the synthesis report has
\* overall_confidence 0.0 and recommendation REJECT.
C19_AllFailedRejects ==
  /\ (pc \in {"rendering", "returned"}
        /\ \A n \in Agents : fate[n] \in {"raised", "timedout"}) =>
       /\ master_synthesis.overall_confidence = 0
       /\ master_synthesis.recommendation = "REJECT"
  /\ pc = "synthesize" =>
       \A o \in [Agents -> {"TimeoutError", "Exception"}] :
         /\ C19_ReportOf(o).overall_confidence = 0
         /\ C19_ReportOf(o).recommendation = "REJECT"

C19_Witness ==
  /\ pc = "returned"
  /\ \A n \in Agents : fate[n] = "raised" /\ progress[n] = "Failed"
  /\ master_synthesis.overall_confidence = 0
  /\ master_synthesis.recommendation = "REJECT"

\* all_results with the confidence of n raised to c
C20_Raised(n, c) == [all_results EXCEPT ![n].conf = c]

\* the higher confidences compared with r.conf
C20_Higher(r) == {c \in ConfGrid \cup {r.conf + 1, 100} : c > r.conf}

\* C20: raising one capability's confidence, the others held fixed, never
\* lowers the overall_confidence that synthesize_results returns.
C20_Monotone ==
  pc = "rendering" =>
    \A n \in Agents :
      (all_results[n].kind = "dict" /\ all_results[n].confKind = "num") =>
        \A c \in C20_Higher(all_results[n]) :
          \A e \in FpErrs(WeightedSum(C20_Raised(n, c))) :
            synthesize_results(C20_Raised(n, c), e).overall_confidence
              >= master_synthesis.overall_confidence

C20_Witness ==
  /\ pc = "rendering"
  /\ all_results = Scenario
  /\ synthesize_results(C20_Raised("patent_analysis", 100), 0)
         .overall_confidence > master_synthesis.overall_confidence

\* C16: the synchronous entry point works in both contexts: called with no
\* running event loop or from inside one, it runs the analysis and returns
\* the bundle with master_synthesis; the RuntimeError of the event loop never
\* leaves it.
C16_SyncEntryWorks ==
  entry.via = "sync" =>
    /\ outcome # "runtime_error"
    /\ outcome = "bundle" => "master_synthesis" \in meta

\* the values reported for the fact by the entries of the source list
C17_Reported ==
  {results_dict.entries[i].expiry_date : i \in DOMAIN results_dict.entries}
    \ {"absent", ""}

\* C17: differing values for patent expiry give conflict_detected and one
\* conflict entry listing the sources with value and confidence; identical
\* values give no conflict; a fact reported by one source or none gives no
\* conflict.
C17_ConflictIffDiffering ==
  conflict_report.kind = "report" =>
    /\ (results_dict.source_data = "list" /\ Cardinality(C17_Reported) > 1) =>
         /\ conflict_report.conflict_detected
         /\ Len(conflict_report.conflicts) = 1
         /\ conflict_report.conflicts[1].field = "patent_expiry"
         /\ LET listed == conflict_report.conflicts[1].sources
                es == results_dict.entries
            IN  /\ Len(listed) = Len(es)
                /\ \A i \in DOMAIN es :
                     /\ es[i].source # "absent"
                          => listed[i].source = es[i].source
                     /\ es[i].expiry_date # "absent"
                          => listed[i].value = es[i].expiry_date
                     /\ es[i].confidence >= 0
                          => listed[i].confidence = es[i].confidence
    /\ (results_dict.source_data # "list" \/ Cardinality(C17_Reported) <= 1) =>
         /\ ~conflict_report.conflict_detected
         /\ conflict_report.conflicts = <<>>

C17_Witness ==
  /\ conflict_report.kind = "report"
  /\ conflict_report.conflict_detected
  /\ Len(results_dict.entries) = 2
  /\ results_dict.entries[1].source = "A"
  /\ results_dict.entries[2].source = "B"
  /\ results_dict.entries[1].expiry_date = "2030"
  /\ results_dict.entries[2].expiry_date = "2035"

\* C18: detect_conflicts never raises for missing data: whatever is absent
\* or empty among the patent result, its source_data and the fields of its
\* entries, a report is returned, and an absent fact gives no conflict entry.
C18_NeverRaisesForMissing ==
  conflict_report # NoReport =>
    /\ conflict_report.kind = "report"
    /\ C17_Reported = {} => conflict_report.conflicts = <<>>

\* C21: the overall_confidence of every synthesis report lies in [0, 1],
\* whatever result a provider handed back.
C21_InUnitInterval ==
  pc = "rendering" =>
    /\ master_synthesis.overall_confidence >= 0
    /\ master_synthesis.overall_confidence <= 100

\* C22: a cancellation of an in-flight run cancels every still-pending task
\* and still produces a best-effort bundle from the results that had
\* settled.
C22_CancelKeepsPartial ==
  outcome = "cancelled" =>
    /\ \A n \in Agents : task[n] \in {"done", "cancelled"}
    /\ pc = "returned"
    /\ \A n \in Agents : task[n] = "done" => all_results[n] = taskResult[n]

\* the keys of a returned bundle besides the six capability names
C23_Keys == {"molecule", "disease", "timestamp", "master_synthesis",
             "pdf_report"}

\* C23: every bundle returned by analyze_repurposing or
\* analyze_repurposing_async contains master_synthesis, exactly one result
\* entry for each of the six registered capabilities, and the keys molecule,
\* disease, timestamp and pdf_report.
C23_BundleShape ==
  (pc = "returned" \/ outcome = "bundle") =>
    /\ pc = "returned" /\ outcome = "bundle"
    /\ meta = C23_Keys
    /\ master_synthesis # NoSynthesis
    /\ DOMAIN all_results = Agents
    /\ \A n \in Agents :
         /\ all_results[n] # NoResult
         /\ all_results[n] = taskResult[n]

C23_Witness ==
  /\ outcome = "bundle"
  /\ entry = SyncEntry("no_loop")
  /\ runs = MaxRuns
  /\ \E n \in Agents : all_results[n] = ExceptionPlaceholder(n)
  /\ \E n \in Agents : all_results[n] = ProviderResult(n, ProviderConf[n])

\* the settled map as a function of what each provider call did
C24_Settled ==
  [n \in Agents |-> RunAgentSettle(n, AwaitOutcome(fate[n])).result]

\* C24: whatever the order in which the tasks complete, all_results[name] is
\* the result produced by the agent registered under name, so the settled map
\* and the synthesis report are functions of the provider outcomes alone.
C24_OrderIndependent ==
  /\ pc \in Joined =>
       /\ all_results = C24_Settled
       /\ \A n \in Agents : all_results[n].desc \in {n, "none"}
  /\ pc \in {"rendering", "returned"} =>
       \E e \in FpErrs(WeightedSum(C24_Settled)) :
         master_synthesis = synthesize_results(C24_Settled, e)

C24_Witness ==
  /\ pc = "rendering"
  /\ fate["patent_analysis"] = "returned" /\ late["patent_analysis"]
  /\ fate["internal_analysis"] = "returned" /\ ~late["internal_analysis"]
  /\ fate["clinical_analysis"] = "raised" /\ late["clinical_analysis"]
  /\ fate["market_analysis"] = "raised" /\ ~late["market_analysis"]

\* C25: the tasks are launched concurrently: a task is set to Running while
\* no sibling of the run is terminal, no task finishes before every task has
\* been set to Running, and so every run passes a state in which all six
\* capabilities are Running.
C25_LaunchedTogether ==
  /\ [][\A n \in Agents :
          (task[n] = "created" /\ task'[n] = "awaiting") =>
            /\ progress'[n] = "Running"
            /\ \A m \in Agents \ {n} : task[m] \in {"created", "awaiting"}]_vars
  /\ []((\E n \in Agents : task[n] \in {"done", "hung"}) =>
          \A m \in Agents : task[m] # "created")
  /\ []((pc = "gathering" /\ \A n \in Agents : task[n] = "awaiting") =>
          \A n \in Agents : progress[n] = "Running")

C25_Witness ==
  /\ pc = "gathering"
  /\ runs = MaxRuns
  /\ \A n \in Agents : task[n] = "awaiting" /\ progress[n] = "Running"

\* C26: with the tasks writing and a poller reading, every read through
\* get_analysis_progress shows, for each of the six registered names and no
\* other key, one of Pending, Running, Complete, Failed, both when the
\* mapping is obtained and whenever it is read afterwards.
C26_WholeEntries ==
  held # NoSnapshot =>
    /\ DOMAIN held.atCall = Agents
    /\ \A n \in Agents : held.atCall[n] \in Status
    /\ DOMAIN Observed(held) = Agents
    /\ \A n \in Agents : Observed(held)[n] \in Status

C26_Witness ==
  /\ held # NoSnapshot
  /\ pc = "gathering"
  /\ \E n \in Agents : Observed(held)[n] = "Running"
  /\ \E n \in Agents : Observed(held)[n] = "Complete"
  /\ \E n \in Agents : Observed(held)[n] = "Failed"

\* a confidence that float() cannot convert is in the bundle
C27_BadInput ==
  \E n \in Agents :
    all_results[n].kind = "dict" /\ all_results[n].confKind = "bad"

\* C27: if synthesize_results raises, the run raises to its caller, returns
\* no bundle, and the report renderer is not invoked for that run.
C27_SynthesisFatal ==
  /\ [][(pc = "synthesize" /\ C27_BadInput) =>
          /\ pc' = "raised"
          /\ outcome' = "synthesis_exception"
          /\ rendererCalls' = 0
          /\ master_synthesis' = NoSynthesis]_vars
  /\ [](outcome = "synthesis_exception" =>
          /\ pc = "raised"
          /\ rendererCalls = 0
          /\ "master_synthesis" \notin meta
          /\ "pdf_report" \notin meta)

C27_Witness ==
  /\ outcome = "synthesis_exception"
  /\ pc = "raised"
  /\ all_results["web_analysis"] = BadConfidence("web_analysis")

\* C28: in every synthesis report the reported overall_confidence and the
\* recommendation agree with the bands: PROCEED exactly when the reported
\* value is >= 0.75, CAUTION exactly when it is >= 0.50 and < 0.75, REJECT
\* exactly when it is < 0.50.
C28_ReportedAgrees ==
  pc = "rendering" =>
    LET oc == master_synthesis.overall_confidence
        rec == master_synthesis.recommendation
    IN  /\ rec = "PROCEED" <=> oc >= 75
        /\ rec = "CAUTION" <=> (oc >= 50 /\ oc < 75)
        /\ rec = "REJECT" <=> oc < 50

\* C29 as stated: after the join a capability is Failed exactly when its
\* result carries an error (with confidence 0.0) and Complete exactly when
\* its result carries no error.
C29_StatusMatchesError ==
  pc \in Joined =>
    \A n \in Agents :
      /\ progress[n] = "Failed" <=> all_results[n].error # "none"
      /\ progress[n] = "Complete" <=> all_results[n].error = "none"
      /\ all_results[n].error # "none" =>
           (all_results[n].confKind = "num" /\ all_results[n].conf = 0)

\* C29: after the join every capability is Complete or Failed; it is Failed
\* exactly when its provider call raised or timed out, and its result is then
\* a placeholder with an error and confidence 0.0; a result without an error
\* belongs to a Complete capability; a Complete capability carries whatever
\* its provider returned, an error the provider reported itself included.
C29_FailedIsPlaceholder ==
  pc \in Joined =>
    \A n \in Agents :
      /\ progress[n] \in Terminal
      /\ progress[n] = "Failed" <=> fate[n] \in {"raised", "timedout"}
      /\ progress[n] = "Failed" =>
           /\ all_results[n] \in {TimeoutPlaceholder, ExceptionPlaceholder(n)}
           /\ all_results[n].error # "none"
           /\ all_results[n].confKind = "num" /\ all_results[n].conf = 0
      /\ all_results[n].error = "none" => progress[n] = "Complete"
      /\ fate[n] = "returned_error" =>
           /\ progress[n] = "Complete"
           /\ all_results[n] = ReportedError(n)

C29_Witness ==
  /\ pc = "synthesize"
  /\ progress["exim_analysis"] = "Complete"
  /\ all_results["exim_analysis"].error = "reported"
  /\ all_results["exim_analysis"].confKind = "absent"
  /\ progress["patent_analysis"] = "Failed"
  /\ all_results["patent_analysis"] = ExceptionPlaceholder("patent_analysis")

\* C30: the report renderer reads each capability's result under the key the
\* orchestrator stored it under: for each of the six capabilities the
\* confidence of the breakdown equals the confidence of that capability's
\* result in the bundle.
C30_RendererReadsStoredKeys ==
  outcome = "bundle" =>
    \A n \in Agents :
      /\ RendererKey(n) = n
      /\ confidence_map[n] = ReadConfidence(all_results[n])

====
